---- MODULE Spec2Model ----
(***************************************************************************)
(* ScreenSift: the classification-to-storage pipeline of src/src/index.ts  *)
(* (multi-label variant) and src/unnamed/part_000 (single-label variant),  *)
(* over the tables of src/src/db/schema.ts and the R2 blob store.          *)
(*                                                                         *)
(* Every await of a handler is one action: requests interleave only at     *)
(* their awaits (Workers run one isolate event loop per request, D1 and R2 *)
(* are shared).  Confidence values are tenths (0.5 is 5).                  *)
(***************************************************************************)
EXTENDS Integers, Sequences, FiniteSets, Bags, TLC

\* ---------------------------------------------------------------- bounds
MaxReq == 2
MaxFaults == 1
MaxLen == 4

\* ------------------------------------------------------------- constants
NoId == 0
NoCat == 0
NullScore == -1

Slots == 1..MaxReq

VARIABLES
    variant,              \* "multi" (src/src/index.ts) or "single" (part_000)
    R2,                   \* keys of the blobs held by the bucket
    screenshots,          \* id -> row of table screenshots
    categories,           \* rows of table categories
    screenshotCategories, \* bag of rows of table screenshot_categories
    analysisResults,      \* rows of table analysis_results
    nextId,               \* next crypto.randomUUID() of a screenshot id
    nextKey,              \* next crypto.randomUUID() of an R2 key
    nextCategoryId,       \* AUTOINCREMENT of categories.id
    nextResultId,         \* AUTOINCREMENT of analysis_results.id
    req,                  \* slot -> the request running in it
    faults                \* storage calls (D1, R2) that may still throw

vars == <<variant, R2, screenshots, categories, screenshotCategories,
          analysisResults, nextId, nextKey, nextCategoryId, nextResultId,
          req, faults>>

tables == <<screenshots, categories, screenshotCategories, analysisResults>>
counters == <<nextId, nextKey, nextCategoryId, nextResultId>>

\* ---------------------------------------------------------- the classifier
\* Objects the model can return (result.object); in the single-label variant
\* the schema has no `categories` field and the handlers that read it find
\* undefined.
Judgements ==
    { [isImportant |-> FALSE, confidence |-> 8,
       categories |-> <<"Social", "Dev">>, folderCategory |-> "Social"] }

NoAnalysis ==
    [isImportant |-> FALSE, confidence |-> NullScore,
     categories |-> <<>>, folderCategory |-> "none"]

Fallback ==
    [isImportant |-> FALSE, confidence |-> 5,
     categories |-> <<"uncategorized">>, folderCategory |-> "Temp"]

\* An object whose categories array (z.array(z.string())) names a category
\* twice.
Repeated ==
    [isImportant |-> FALSE, confidence |-> 8,
     categories |-> <<"Dev", "Dev">>, folderCategory |-> "Dev"]

\* What generateObject does: return an object, or throw.
Outcomes ==
    { [ok |-> TRUE, object |-> j] : j \in Judgements }
    \cup { [ok |-> FALSE, object |-> NoAnalysis] }

\* analyzeScreenshot without its try/catch: the classifier's throw leaves no
\* judgement.
analyzeScreenshotNoCatch(outcome) == outcome.object

analyzeScreenshot(outcome) ==
    IF outcome.ok THEN outcome.object ELSE Fallback

\* The category names POST /upload links: analysis.categories in the
\* multi-label variant, the single analysis.folderCategory in the other.
UploadCategoryNames(v, analysis) ==
    IF v = "multi" THEN analysis.categories ELSE <<analysis.folderCategory>>

\* What the upload response carries as category|categories.
UploadResponseCategories(v, analysis) ==
    IF v = "multi" THEN analysis.categories ELSE <<analysis.folderCategory>>

\* ------------------------------------------------------------- the tables
\* uploadedAt: $defaultFn(() => new Date()) at insert; rows are inserted in
\* id order, so the clock reading of a row is modelled by its id.
UploadedAt(id) == id

\* The file a caller sends: POST /upload stores file.name, file.size and
\* file.type, analyze_screenshot the filename it is given, the length of the
\* decoded buffer and 'image/jpeg'.
FileOf(kind) ==
    [name |-> "shot.png", size |-> 1,
     type |-> IF kind = "tool" THEN "image/jpeg" ELSE "image/png"]

\* A row as db.insert(schema.screenshots) creates it: analyzed_at and
\* confidence_score are NULL, is_important takes its default.
NewScreenshot(id, key, file) ==
    [filename |-> file.name, r2Key |-> key, fileSize |-> file.size,
     mimeType |-> file.type, uploadedAt |-> UploadedAt(id),
     analyzedAt |-> "null", isImportant |-> FALSE,
     confidenceScore |-> NullScore]

\* An update that also stamps the upload time.
UpdateAnalysisStamping(id, analysis) ==
    IF id \in DOMAIN screenshots
    THEN [screenshots EXCEPT ![id].analyzedAt = "set",
                             ![id].uploadedAt = 0,
                             ![id].isImportant = analysis.isImportant,
                             ![id].confidenceScore = analysis.confidence]
    ELSE screenshots

\* db.update(schema.screenshots).set({analyzedAt, isImportant,
\* confidenceScore}).where(id = ...): no row matched is no error.
UpdateAnalysis(id, analysis) ==
    IF id \in DOMAIN screenshots
    THEN [screenshots EXCEPT ![id].analyzedAt = "set",
                             ![id].isImportant = analysis.isImportant,
                             ![id].confidenceScore = analysis.confidence]
    ELSE screenshots

\* A database that does not enforce the foreign keys.
ForeignKeyOff(id) == TRUE

\* references(() => screenshots.id): D1 enforces foreign keys.
ForeignKeyOk(id) == id \in DOMAIN screenshots

\* r2Key: text("r2_key").notNull().unique()
UniqueKeyOk(key) == \A id \in DOMAIN screenshots : screenshots[id].r2Key # key

\* A categories table without the unique index on name.
UniqueNameOff(name) == TRUE

\* name: text("name").notNull().unique()
UniqueNameOk(name) == \A c \in categories : c.name # name

\* let [category] = await db.select().from(categories).where(name = ...)
CategoryIdByName(name) ==
    LET found == { c.id : c \in { x \in categories : x.name = name } }
    IN  IF found = {} THEN NoCat
        ELSE CHOOSE n \in found : \A m \in found : n <= m

CategoryIds == { c.id : c \in categories }

LinkRow(id, cat, analysis) ==
    [screenshotId |-> id, categoryId |-> cat, confidence |-> analysis.confidence]

\* screenshot_categories without ON DELETE cascade.
LinksKept(id) == screenshotCategories

\* db.delete(schema.screenshotCategories).where(screenshotId = id)
LinksWithout(id) ==
    LET keep == { l \in DOMAIN screenshotCategories : l.screenshotId # id }
    IN  [ l \in keep |-> screenshotCategories[l] ]

\* db.delete(schema.screenshots).where(id = ...) with ON DELETE cascade.
ScreenshotsWithout(id) ==
    [ x \in DOMAIN screenshots \ {id} |-> screenshots[x] ]

\* analysis_results without ON DELETE cascade.
ResultsKept(id) == analysisResults

ResultsWithout(id) == { a \in analysisResults : a.screenshotId # id }

ResultRow(id, type, analysis) ==
    [id |-> nextResultId, screenshotId |-> id, analysisType |-> type,
     resultData |-> analysis]

\* ----------------------------------------------------------- the requests
NoResp == [isImportant |-> FALSE, confidence |-> NullScore, categories |-> <<>>]

IdleReq ==
    [kind |-> "none", pc |-> "idle", id |-> NoId, key |-> NoId,
     analysis |-> NoAnalysis, failed |-> FALSE, i |-> 0, cat |-> NoCat,
     status |-> "none", err |-> "none", resp |-> NoResp, log |-> <<>>,
     args |-> <<>>, rows |-> <<>>, keys |-> <<>>, count |-> 0]

\* Slots are taken in order: which slot a request runs in is only its name.
CanStart(r) ==
    /\ req[r].pc = "idle"
    /\ \A q \in Slots : q < r => req[q].pc # "idle"

\* No request is between its first and its last await.
Quiet == \A q \in Slots : req[q].pc \in {"idle", "done", "gone"}

\* No handler has returned a response that is still to leave.
NoneDone == \A q \in Slots : req[q].pc # "done"

\* What is left of a request once its response has left.
GoneReq ==
    [kind |-> "none", pc |-> "gone", id |-> NoId, key |-> NoId,
     analysis |-> NoAnalysis, failed |-> FALSE, i |-> 0, cat |-> NoCat,
     status |-> "none", err |-> "none", resp |-> NoResp, log |-> <<>>,
     args |-> <<>>, rows |-> <<>>, keys |-> <<>>, count |-> 0]

\* A storage call (D1 or R2) returns or throws.
Oks == IF faults > 0 THEN BOOLEAN ELSE {TRUE}

Count(ok) == faults' = IF ok THEN faults ELSE faults - 1

\* A catch that goes on to the handler's success response.
CaughtThenRespond(q, e) ==
    [q EXCEPT !.pc = "done",
              !.status = IF q.kind = "upload" THEN "201" ELSE "200"]

\* The requests that are MCP tool calls (analyze_screenshot,
\* cleanup_clutter, search_screenshots).
ToolKinds == {"tool", "cleanup", "search"}

\* The handler's catch: 500 for the HTTP handlers, isError for a tool.
Caught(q, e) ==
    [q EXCEPT !.pc = "done",
              !.status = IF q.kind \in ToolKinds THEN "isError" ELSE "500",
              !.err = e]

Done(q, status) == [q EXCEPT !.pc = "done", !.status = status]

Set(r, q) == req' = [req EXCEPT ![r] = q]

\* The catalog a run starts from: empty, or holding one screenshot as a
\* successful POST /upload that the classifier answered with Seed leaves it
\* (the state UploadPut .. UploadLink reach from the empty catalog).
Seed ==
    [isImportant |-> TRUE,  confidence |-> 9,
     categories |-> <<"Dev", "Bugs">>, folderCategory |-> "Dev"]

SeedNames(v) == UploadCategoryNames(v, Seed)

CatalogOf(v, seeded, analysis) ==
    LET names == UploadCategoryNames(v, analysis) IN
    /\ variant = v
    /\ R2 = IF seeded THEN {1} ELSE {}
    /\ screenshots = IF seeded
                     THEN 1 :> [NewScreenshot(1, 1, FileOf("upload")) EXCEPT
                                    !.analyzedAt = "set",
                                    !.isImportant = analysis.isImportant,
                                    !.confidenceScore = analysis.confidence]
                     ELSE <<>>
    /\ categories = IF seeded
                    THEN { [id |-> n, name |-> names[n]] : n \in DOMAIN names }
                    ELSE {}
    /\ screenshotCategories =
           IF seeded
           THEN SetToBag({ LinkRow(1, n, analysis) : n \in DOMAIN names })
           ELSE EmptyBag
    /\ analysisResults =
           IF seeded
           THEN { [id |-> 1, screenshotId |-> 1,
                   analysisType |-> "gemini_vision", resultData |-> analysis] }
           ELSE {}
    /\ nextId = IF seeded THEN 2 ELSE 1
    /\ nextKey = IF seeded THEN 2 ELSE 1
    /\ nextCategoryId = IF seeded THEN Len(names) + 1 ELSE 1
    /\ nextResultId = IF seeded THEN 2 ELSE 1
    /\ req = [r \in Slots |-> IdleReq]

Catalog(v, seeded) == CatalogOf(v, seeded, Seed)

\* Storage never throws (constraint violations apart).
Init ==
    /\ \E v \in {"multi", "single"}, seeded \in BOOLEAN : Catalog(v, seeded)
    /\ faults = 0

\* The same, from the catalog that holds a screenshot.
InitSeeded ==
    /\ \E v \in {"multi", "single"} : Catalog(v, TRUE)
    /\ faults = 0

\* The catalog that holds a screenshot the classifier judged clutter (not
\* important); only the multi-label variant has cleanup_clutter.
InitClutter ==
    /\ \E j \in Judgements : CatalogOf("multi", TRUE, j)
    /\ faults = 0

\* Up to MaxFaults storage calls throw.
InitFaulty ==
    /\ \E v \in {"multi", "single"}, seeded \in BOOLEAN : Catalog(v, seeded)
    /\ faults = MaxFaults

\* --------------------------------------------------------- POST /upload
\* A key made of the file's name alone.
generateR2KeyFromName(file) == 1

\* generateR2Key(file.name): screenshots/<year>/<month>/<uuid>.<ext>, told
\* apart from every other key by its crypto.randomUUID().
generateR2Key(file) == nextKey

\* File names, as sequences of characters, up to MaxLen long.
Chars == {"a", "b", "."}

FileNames == UNION { [1..n -> Chars] : n \in 0..MaxLen }

RECURSIVE split(_, _)
\* filename.split('.'): the pieces between the separators, at least one.
split(s, sep) ==
    IF s = <<>> THEN << <<>> >>
    ELSE LET rest == split(Tail(s), sep)
         IN  IF Head(s) = sep THEN << <<>> >> \o rest
             ELSE << <<Head(s)>> \o Head(rest) >> \o Tail(rest)

\* Array.prototype.pop(): the last element.
pop(a) == a[Len(a)]

Jpg == <<"j", "p", "g">>

\* const ext = filename.split('.').pop() || 'jpg': the empty string is the
\* only falsy piece.
Extension(filename) ==
    LET ext == pop(split(filename, "."))
    IN  IF ext = <<>> THEN Jpg ELSE ext

\* return `screenshots/${year}/${month}/${uuid}.${ext}`
R2KeyOf(filename) == [uuid |-> generateR2Key(filename), ext |-> Extension(filename)]

\* One call of generateR2Key(filename), its result kept with its argument.
GenerateKey(r, filename) ==
    /\ CanStart(r)
    /\ Set(r, Done([IdleReq EXCEPT !.kind = "key",
                                   !.args = [filename |-> filename],
                                   !.keys = <<R2KeyOf(filename)>>], "ok"))
    /\ nextKey' = nextKey + 1
    /\ UNCHANGED <<variant, R2, tables, nextId, nextCategoryId, nextResultId,
                   faults>>

\* An upload that stores whatever it is sent.
UploadPutUnchecked(r, file, ok) ==
    /\ CanStart(r)
    /\ IF ok
       THEN /\ R2' = R2 \cup {nextKey}
            /\ nextKey' = nextKey + 1
            /\ Set(r, [IdleReq EXCEPT !.kind = "upload", !.pc = "insert",
                                      !.key = nextKey, !.log = <<"put">>])
       ELSE /\ Set(r, Caught([IdleReq EXCEPT !.kind = "upload"], "storage"))
            /\ UNCHANGED <<R2, nextKey>>
    /\ Count(ok)
    /\ UNCHANGED <<variant, tables, nextId, nextCategoryId, nextResultId>>

\* formData, the two 400 checks, generateR2Key and R2.put.
UploadPut(r, file, ok) ==
    /\ CanStart(r)
    /\ IF file # "image"
       THEN /\ ok
            /\ Set(r, Done([IdleReq EXCEPT !.kind = "upload"], "400"))
            /\ UNCHANGED <<R2, nextKey>>
       ELSE IF ok
       THEN /\ R2' = R2 \cup {generateR2Key(file)}
            /\ nextKey' = nextKey + 1
            /\ Set(r, [IdleReq EXCEPT !.kind = "upload", !.pc = "insert",
                                      !.key = generateR2Key(file),
                                      !.log = <<"put">>])
       ELSE /\ Set(r, Caught([IdleReq EXCEPT !.kind = "upload"], "storage"))
            /\ UNCHANGED <<R2, nextKey>>
    /\ Count(ok)
    /\ UNCHANGED <<variant, tables, nextId, nextCategoryId, nextResultId>>

\* db.insert(schema.screenshots).values(...).returning()
InsertScreenshot(r, ok) ==
    /\ req[r].pc = "insert"
    /\ IF ~ok
       THEN /\ Set(r, Caught(req[r], "storage"))
            /\ UNCHANGED <<screenshots, nextId>>
       ELSE IF ~UniqueKeyOk(req[r].key)
       THEN /\ Set(r, Caught(req[r], "unique key"))
            /\ UNCHANGED <<screenshots, nextId>>
       ELSE /\ screenshots' = screenshots @@
                    (nextId :> NewScreenshot(nextId, req[r].key, FileOf(req[r].kind)))
            /\ nextId' = nextId + 1
            /\ Set(r, [req[r] EXCEPT !.pc = "analyze", !.id = nextId,
                                     !.log = Append(@, "insert")])
    /\ Count(ok)
    /\ UNCHANGED <<variant, R2, categories, screenshotCategories,
                   analysisResults, nextKey, nextCategoryId, nextResultId>>

UploadInsert(r, ok) == req[r].kind = "upload" /\ InsertScreenshot(r, ok)

\* const analysis = await analyzeScreenshot(arrayBuffer, env)
Analyze(r, outcome) ==
    /\ req[r].pc = "analyze"
    /\ Set(r, [req[r] EXCEPT !.pc = "update",
                             !.analysis = analyzeScreenshot(outcome),
                             !.failed = ~outcome.ok,
                             !.log = Append(@, "classify")])
    /\ UNCHANGED <<variant, R2, tables, counters, faults>>

UploadAnalyze(r, outcome) == req[r].kind = "upload" /\ Analyze(r, outcome)

\* db.update(schema.screenshots).set({analyzedAt, isImportant, confidenceScore})
UploadUpdate(r, ok) ==
    /\ req[r].kind = "upload"
    /\ req[r].pc = "update"
    /\ IF ok
       THEN /\ screenshots' = UpdateAnalysis(req[r].id, req[r].analysis)
            /\ Set(r, [req[r] EXCEPT !.pc = "result", !.log = Append(@, "update")])
       ELSE /\ Set(r, Caught(req[r], "storage"))
            /\ UNCHANGED screenshots
    /\ Count(ok)
    /\ UNCHANGED <<variant, R2, categories, screenshotCategories,
                   analysisResults, counters>>

\* The category names the handler's loop runs over.
Names(q) ==
    IF q.kind = "upload" THEN UploadCategoryNames(variant, q.analysis)
    ELSE q.analysis.categories

\* The handler's last statement: c.json({...}, 201) or c.json({...}).
Respond(q) ==
    [q EXCEPT !.pc = "done",
              !.status = IF q.kind = "upload" THEN "201" ELSE "200",
              !.resp = [isImportant |-> q.analysis.isImportant,
                        confidence |-> q.analysis.confidence,
                        categories |-> IF q.kind = "upload"
                                       THEN UploadResponseCategories(variant, q.analysis)
                                       ELSE q.analysis.categories]]

\* A handler that responds without running its category loop.
EnterLoopSkipped(q) == Respond(q)

\* Entering `for (const categoryName of ...)`: the first select, or past the
\* loop when there is nothing to iterate.
EnterLoop(q) ==
    IF Names(q) = <<>> THEN Respond(q) ELSE [q EXCEPT !.pc = "select", !.i = 1]

\* db.insert(schema.analysisResults).values({screenshotId, analysisType, resultData})
InsertResult(r, ok, type, after) ==
    /\ req[r].pc = "result"
    /\ IF ~ok
       THEN /\ Set(r, Caught(req[r], "storage"))
            /\ UNCHANGED <<analysisResults, nextResultId>>
       ELSE IF ~ForeignKeyOk(req[r].id)
       THEN /\ Set(r, Caught(req[r], "foreign key"))
            /\ UNCHANGED <<analysisResults, nextResultId>>
       ELSE /\ analysisResults' =
                   analysisResults \cup {ResultRow(req[r].id, type, req[r].analysis)}
            /\ nextResultId' = nextResultId + 1
            /\ Set(r, after)
    /\ Count(ok)
    /\ UNCHANGED <<variant, R2, screenshots, categories, screenshotCategories,
                   nextId, nextKey, nextCategoryId>>

UploadResult(r, ok) ==
    /\ req[r].kind = "upload"
    /\ InsertResult(r, ok, "gemini_vision",
                    EnterLoop([req[r] EXCEPT !.log = Append(@, "result")]))

\* let [category] = await db.select().from(categories).where(name = categoryName)
SelectCategory(r, ok) ==
    /\ req[r].pc = "select"
    /\ IF ok
       THEN LET cat == CategoryIdByName(Names(req[r])[req[r].i])
            IN  Set(r, [req[r] EXCEPT !.cat = cat,
                                      !.pc = IF cat = NoCat THEN "create" ELSE "link",
                                      !.log = Append(@, "resolve")])
       ELSE Set(r, Caught(req[r], "storage"))
    /\ Count(ok)
    /\ UNCHANGED <<variant, R2, tables, counters>>

\* if (!category) [category] = await db.insert(categories).values({name}).returning()
CreateCategory(r, ok) ==
    /\ req[r].pc = "create"
    /\ LET name == Names(req[r])[req[r].i]
       IN  IF ~ok
           THEN /\ Set(r, Caught(req[r], "storage"))
                /\ UNCHANGED <<categories, nextCategoryId>>
           ELSE IF ~UniqueNameOk(name)
           THEN /\ Set(r, Caught(req[r], "unique"))
                /\ UNCHANGED <<categories, nextCategoryId>>
           ELSE /\ categories' = categories \cup {[id |-> nextCategoryId, name |-> name]}
                /\ nextCategoryId' = nextCategoryId + 1
                /\ Set(r, [req[r] EXCEPT !.cat = nextCategoryId, !.pc = "link"])
    /\ Count(ok)
    /\ UNCHANGED <<variant, R2, screenshots, screenshotCategories,
                   analysisResults, nextId, nextKey, nextResultId>>

\* db.insert(schema.screenshotCategories).values({screenshotId, categoryId,
\* confidence}); then the next name, or the response.
InsertLink(r, ok) ==
    /\ req[r].pc = "link"
    /\ IF ~ok
       THEN /\ Set(r, Caught(req[r], "storage"))
            /\ UNCHANGED screenshotCategories
       ELSE IF ~(ForeignKeyOk(req[r].id) /\ req[r].cat \in CategoryIds)
       THEN /\ Set(r, Caught(req[r], "foreign key"))
            /\ UNCHANGED screenshotCategories
       ELSE /\ screenshotCategories' = screenshotCategories (+)
                   SetToBag({LinkRow(req[r].id, req[r].cat, req[r].analysis)})
            /\ LET q == [req[r] EXCEPT !.log = Append(@, "link")]
               IN  Set(r, IF q.i < Len(Names(q))
                          THEN [q EXCEPT !.pc = "select", !.i = @ + 1]
                          ELSE Respond(q))
    /\ Count(ok)
    /\ UNCHANGED <<variant, R2, screenshots, categories, analysisResults, counters>>

UploadSelectCategory(r, ok) == req[r].kind = "upload" /\ SelectCategory(r, ok)

UploadCreateCategory(r, ok) == req[r].kind = "upload" /\ CreateCategory(r, ok)

UploadLink(r, ok) == req[r].kind = "upload" /\ InsertLink(r, ok)

\* ------------------------------------------- MCP tool analyze_screenshot
\* atob(imageData), generateR2Key and R2.put.
ToolPut(r, valid, ok) ==
    /\ CanStart(r)
    /\ IF ~valid
       THEN /\ ok
            /\ Set(r, Caught([IdleReq EXCEPT !.kind = "tool"], "type"))
            /\ UNCHANGED <<R2, nextKey>>
       ELSE IF ok
       THEN /\ R2' = R2 \cup {nextKey}
            /\ nextKey' = nextKey + 1
            /\ Set(r, [IdleReq EXCEPT !.kind = "tool", !.pc = "insert",
                                      !.key = nextKey, !.log = <<"put">>])
       ELSE /\ Set(r, Caught([IdleReq EXCEPT !.kind = "tool"], "storage"))
            /\ UNCHANGED <<R2, nextKey>>
    /\ Count(ok)
    /\ UNCHANGED <<variant, tables, nextId, nextCategoryId, nextResultId>>

ToolInsert(r, ok) == req[r].kind = "tool" /\ InsertScreenshot(r, ok)

ToolAnalyze(r, outcome) == req[r].kind = "tool" /\ Analyze(r, outcome)

\* db.update(...), then the text built with analysis.categories.join(', '):
\* a TypeError where the judgement has no `categories`.
ToolUpdate(r, ok) ==
    /\ req[r].kind = "tool"
    /\ req[r].pc = "update"
    /\ IF ok
       THEN /\ screenshots' = UpdateAnalysis(req[r].id, req[r].analysis)
            /\ LET q == [req[r] EXCEPT !.log = Append(@, "update")]
               IN  Set(r, IF variant = "single" THEN Caught(q, "type")
                          ELSE [Respond(q) EXCEPT !.status = "ok"])
       ELSE /\ Set(r, Caught(req[r], "storage"))
            /\ UNCHANGED screenshots
    /\ Count(ok)
    /\ UNCHANGED <<variant, R2, categories, screenshotCategories,
                   analysisResults, counters>>

\* ------------------------------------------------ the ids a caller may name
\* Every id handed out so far, and NoId for an id that never existed.
TargetIds == NoId..(nextId - 1)

\* const [screenshot] = await db.select().from(screenshots).where(id = ...),
\* and the 404 when there is none.
SelectScreenshot(r, kind, id, ok, next) ==
    /\ CanStart(r)
    /\ id \in TargetIds
    /\ LET q == [IdleReq EXCEPT !.kind = kind, !.id = id]
       IN  IF ~ok THEN Set(r, Caught(q, "storage"))
           ELSE IF id \notin DOMAIN screenshots THEN Set(r, Done(q, "404"))
           ELSE Set(r, [q EXCEPT !.pc = next, !.key = screenshots[id].r2Key])
    /\ Count(ok)
    /\ UNCHANGED <<variant, R2, tables, counters>>

\* ------------------------------------------------- GET /screenshots/:id
FetchSelect(r, id, ok) == SelectScreenshot(r, "fetch", id, ok, "get")

\* A handler that goes on without looking at what R2.get returned.
GetBlobUnchecked(r, ok, found) ==
    /\ req[r].pc = "get"
    /\ IF ~ok THEN Set(r, Caught(req[r], "storage")) ELSE Set(r, found)
    /\ Count(ok)
    /\ UNCHANGED <<variant, R2, tables, counters>>

\* const object = await R2.get(screenshot.r2Key), and the 404 when null.
GetBlob(r, ok, found) ==
    /\ req[r].pc = "get"
    /\ IF ~ok THEN Set(r, Caught(req[r], "storage"))
       ELSE IF req[r].key \notin R2 THEN Set(r, Done(req[r], "404"))
       ELSE Set(r, found)
    /\ Count(ok)
    /\ UNCHANGED <<variant, R2, tables, counters>>

FetchGet(r, ok) ==
    /\ req[r].kind = "fetch"
    /\ GetBlob(r, ok, Done(req[r], "200"))

\* ---------------------------------------- GET /screenshots/:id/analysis
GetAnalysisSelect(r, id, ok) == SelectScreenshot(r, "analysis", id, ok, "results")

\* The two further selects (analysis results, category names) and the 200.
GetAnalysisRead(r, ok) ==
    /\ req[r].kind = "analysis"
    /\ req[r].pc = "results"
    /\ IF ~ok THEN Set(r, Caught(req[r], "storage"))
       ELSE Set(r, Done(req[r], "200"))
    /\ Count(ok)
    /\ UNCHANGED <<variant, R2, tables, counters>>

\* --------------------------------------- POST /screenshots/:id/reanalyze
ReanalyzeSelect(r, id, ok) == SelectScreenshot(r, "reanalyze", id, ok, "get")

ReanalyzeGet(r, ok) ==
    /\ req[r].kind = "reanalyze"
    /\ GetBlob(r, ok, [req[r] EXCEPT !.pc = "analyze"])

ReanalyzeAnalyze(r, outcome) == req[r].kind = "reanalyze" /\ Analyze(r, outcome)

ReanalyzeUpdate(r, ok) ==
    /\ req[r].kind = "reanalyze"
    /\ req[r].pc = "update"
    /\ IF ok
       THEN /\ screenshots' = UpdateAnalysis(req[r].id, req[r].analysis)
            /\ Set(r, [req[r] EXCEPT !.pc = "result", !.log = Append(@, "update")])
       ELSE /\ Set(r, Caught(req[r], "storage"))
            /\ UNCHANGED screenshots
    /\ Count(ok)
    /\ UNCHANGED <<variant, R2, categories, screenshotCategories,
                   analysisResults, counters>>

\* A reanalysis that keeps only its own Analysis Result row.
ReanalyzeResultReplacing(r, ok) ==
    /\ req[r].kind = "reanalyze"
    /\ req[r].pc = "result"
    /\ analysisResults' =
           ResultsWithout(req[r].id)
               \cup {ResultRow(req[r].id, "gemini_vision_reanalysis", req[r].analysis)}
    /\ nextResultId' = nextResultId + 1
    /\ Set(r, [req[r] EXCEPT !.pc = "unlink", !.log = Append(@, "result")])
    /\ Count(ok)
    /\ UNCHANGED <<variant, R2, screenshots, categories, screenshotCategories,
                   nextId, nextKey, nextCategoryId>>

ReanalyzeResult(r, ok) ==
    /\ req[r].kind = "reanalyze"
    /\ InsertResult(r, ok, "gemini_vision_reanalysis",
                    [req[r] EXCEPT !.pc = "unlink", !.log = Append(@, "result")])

\* db.delete(schema.screenshotCategories).where(screenshotId = id), then the
\* loop over analysis.categories: a TypeError (undefined is not iterable)
\* where the judgement has no `categories`.
ReanalyzeUnlink(r, ok) ==
    /\ req[r].kind = "reanalyze"
    /\ req[r].pc = "unlink"
    /\ IF ok
       THEN /\ screenshotCategories' = LinksWithout(req[r].id)
            /\ LET q == [req[r] EXCEPT !.log = Append(@, "unlink")]
               IN  Set(r, IF variant = "single" THEN Caught(q, "type")
                          ELSE EnterLoop(q))
       ELSE /\ Set(r, Caught(req[r], "storage"))
            /\ UNCHANGED screenshotCategories
    /\ Count(ok)
    /\ UNCHANGED <<variant, R2, screenshots, categories, analysisResults, counters>>

ReanalyzeSelectCategory(r, ok) == req[r].kind = "reanalyze" /\ SelectCategory(r, ok)

ReanalyzeCreateCategory(r, ok) == req[r].kind = "reanalyze" /\ CreateCategory(r, ok)

ReanalyzeLink(r, ok) == req[r].kind = "reanalyze" /\ InsertLink(r, ok)

\* ---------------------------------------------- DELETE /screenshots/:id
DeleteSelect(r, id, ok) == SelectScreenshot(r, "delete", id, ok, "blob")

\* await R2.delete(screenshot.r2Key)
DeleteBlob(r, ok) ==
    /\ req[r].kind = "delete"
    /\ req[r].pc = "blob"
    /\ IF ok
       THEN /\ R2' = R2 \ {req[r].key}
            /\ Set(r, [req[r] EXCEPT !.pc = "row"])
       ELSE /\ Set(r, Caught(req[r], "storage"))
            /\ UNCHANGED R2
    /\ Count(ok)
    /\ UNCHANGED <<variant, tables, counters>>

\* await db.delete(schema.screenshots).where(id = ...): the children cascade.
DeleteRow(r, ok) ==
    /\ req[r].kind = "delete"
    /\ req[r].pc = "row"
    /\ IF ok
       THEN /\ screenshots' = ScreenshotsWithout(req[r].id)
            /\ screenshotCategories' = LinksWithout(req[r].id)
            /\ analysisResults' = ResultsWithout(req[r].id)
            /\ Set(r, Done(req[r], "200"))
       ELSE /\ Set(r, Caught(req[r], "storage"))
            /\ UNCHANGED <<screenshots, screenshotCategories, analysisResults>>
    /\ Count(ok)
    /\ UNCHANGED <<variant, R2, categories, counters>>

\* ------------------------------------------- MCP tool cleanup_clutter
\* A cleanup that takes no notice of dryRun.
DryRunIgnored(arg) == FALSE

\* dryRun: z.boolean().default(true); an argument is <<>> when omitted.
DryRun(arg) == IF arg = <<>> THEN TRUE ELSE arg[1]

\* confidenceThreshold: z.number().default(0.8)
DefaultThreshold == 8

ConfidenceThreshold(arg) == IF arg = <<>> THEN DefaultThreshold ELSE arg[1]

\* A selection by the importance flag alone.
ClutterScreenshotsUnscored(t) ==
    { id \in DOMAIN screenshots : screenshots[id].isImportant = FALSE }

\* A selection that leaves out the rows whose confidence equals the threshold.
ClutterScreenshotsAbove(t) ==
    { id \in DOMAIN screenshots :
        /\ screenshots[id].isImportant = FALSE
        /\ screenshots[id].confidenceScore > t }

\* where(and(eq(isImportant, false), gte(confidenceScore, threshold))): a
\* NULL confidence_score compares as unknown and the row is not selected.
ClutterScreenshots(t) ==
    { id \in DOMAIN screenshots :
        /\ screenshots[id].isImportant = FALSE
        /\ screenshots[id].confidenceScore # NullScore
        /\ screenshots[id].confidenceScore >= t }

\* The orders a select without ORDER BY may return a set of rows in.
Orders(S) ==
    { o \in [1..Cardinality(S) -> S] :
        \A j \in DOMAIN o, k \in DOMAIN o : j # k => o[j] # o[k] }

\* const clutterScreenshots = await db.select()...; the dry-run report, or
\* the first iteration of the deleting loop.
CleanupSelect(r, dryRun, threshold, ok, ids) ==
    /\ CanStart(r)
    /\ variant = "multi"
    /\ ids \in Orders(ClutterScreenshots(ConfidenceThreshold(threshold)))
    /\ LET q == [IdleReq EXCEPT !.kind = "cleanup",
                                !.args = [dryRun |-> dryRun,
                                          threshold |-> threshold]]
           found == [q EXCEPT !.rows = ids,
                              !.keys = [k \in DOMAIN ids |->
                                            screenshots[ids[k]].r2Key]]
       IN  IF ~ok THEN Set(r, Caught(q, "storage"))
           ELSE IF DryRun(dryRun)
           THEN Set(r, Done([found EXCEPT !.count = Len(ids)], "ok"))
           ELSE IF ids = <<>> THEN Set(r, Done(found, "ok"))
           ELSE Set(r, [found EXCEPT !.pc = "blob", !.i = 1])
    /\ Count(ok)
    /\ UNCHANGED <<variant, R2, tables, counters>>

\* await env.R2.delete(screenshot.r2Key)
CleanupBlob(r, ok) ==
    /\ req[r].kind = "cleanup"
    /\ req[r].pc = "blob"
    /\ IF ok
       THEN /\ R2' = R2 \ {req[r].keys[req[r].i]}
            /\ Set(r, [req[r] EXCEPT !.pc = "row"])
       ELSE /\ Set(r, Caught(req[r], "storage"))
            /\ UNCHANGED R2
    /\ Count(ok)
    /\ UNCHANGED <<variant, tables, counters>>

\* await db.delete(schema.screenshots).where(id = screenshot.id);
\* deletedCount++; then the next candidate, or the report.
CleanupRow(r, ok) ==
    /\ req[r].kind = "cleanup"
    /\ req[r].pc = "row"
    /\ IF ok
       THEN LET id == req[r].rows[req[r].i]
                q == [req[r] EXCEPT !.count = @ + 1]
            IN  /\ screenshots' = ScreenshotsWithout(id)
                /\ screenshotCategories' = LinksWithout(id)
                /\ analysisResults' = ResultsWithout(id)
                /\ Set(r, IF q.i < Len(q.rows)
                          THEN [q EXCEPT !.pc = "blob", !.i = @ + 1]
                          ELSE Done(q, "ok"))
       ELSE /\ Set(r, Caught(req[r], "storage"))
            /\ UNCHANGED <<screenshots, screenshotCategories, analysisResults>>
    /\ Count(ok)
    /\ UNCHANGED <<variant, R2, categories, counters>>

\* --------------------------- GET /screenshots and tool search_screenshots
\* A date_from / date_to that is absent or empty.
NoDate == 0

\* Filters that apply no condition.
ConditionsDropped(id, importantOnly, dateFrom, dateTo) == TRUE

\* The conditions array, joined by and(...): each is pushed only when its
\* filter is given.
Conditions(id, importantOnly, dateFrom, dateTo) ==
    /\ importantOnly => screenshots[id].isImportant = TRUE
    /\ dateFrom # NoDate => UploadedAt(id) >= dateFrom
    /\ dateTo # NoDate => UploadedAt(id) <= dateTo

\* The rows the two inner joins give for one screenshot: one per link row to
\* the category of that name.
JoinedRows(id, category) ==
    LET links == { l \in DOMAIN screenshotCategories :
                     /\ l.screenshotId = id
                     /\ \E c \in categories :
                            c.id = l.categoryId /\ c.name = category }
    IN  BagCardinality([ l \in links |-> screenshotCategories[l] ])

\* How many times the query returns a screenshot; `if (category)` is false
\* for an absent and for an empty category.
Returned(id, category, importantOnly, dateFrom, dateTo) ==
    IF ~Conditions(id, importantOnly, dateFrom, dateTo) THEN 0
    ELSE IF category = "" THEN 1
    ELSE JoinedRows(id, category)

RECURSIVE NewestFirst(_, _)
\* orderBy(desc(uploadedAt))
NewestFirst(ids, times) ==
    IF ids = {} THEN <<>>
    ELSE LET id == CHOOSE x \in ids : \A y \in ids : UploadedAt(y) <= UploadedAt(x)
         IN  [k \in 1..times[id] |-> id] \o NewestFirst(ids \ {id}, times)

\* .limit(limit).offset(offset)
Page(s, limit, offset) ==
    SubSeq(s, offset + 1, IF offset + limit < Len(s) THEN offset + limit ELSE Len(s))

Query(category, importantOnly, dateFrom, dateTo, limit, offset) ==
    Page(NewestFirst(DOMAIN screenshots,
                     [id \in DOMAIN screenshots |->
                         Returned(id, category, importantOnly, dateFrom, dateTo)]),
         limit, offset)

\* GET /screenshots: one select, then c.json({screenshots, limit, offset}).
ListSelect(r, category, importantOnly, dateFrom, dateTo, limit, offset, ok) ==
    /\ CanStart(r)
    /\ LET q == [IdleReq EXCEPT !.kind = "list",
                                !.args = [category |-> category,
                                          importantOnly |-> importantOnly,
                                          dateFrom |-> dateFrom,
                                          dateTo |-> dateTo]]
       IN  IF ~ok THEN Set(r, Caught(q, "storage"))
           ELSE Set(r, Done([q EXCEPT !.rows = Query(category, importantOnly,
                                                     dateFrom, dateTo,
                                                     limit, offset)], "200"))
    /\ Count(ok)
    /\ UNCHANGED <<variant, R2, tables, counters>>

\* search_screenshots: the same query without dates and offset.
SearchSelect(r, category, importantOnly, limit, ok) ==
    /\ CanStart(r)
    /\ variant = "multi"
    /\ LET q == [IdleReq EXCEPT !.kind = "search",
                                !.args = [category |-> category,
                                          importantOnly |-> importantOnly,
                                          dateFrom |-> NoDate,
                                          dateTo |-> NoDate]]
       IN  IF ~ok THEN Set(r, Caught(q, "storage"))
           ELSE Set(r, Done([q EXCEPT !.rows = Query(category, importantOnly,
                                                     NoDate, NoDate, limit, 0)],
                            "ok"))
    /\ Count(ok)
    /\ UNCHANGED <<variant, R2, tables, counters>>

\* ------------------------------------------------------- GET /categories
\* count(screenshot_categories.screenshot_id) over the left join, grouped by
\* categories.id: the number of link rows of the category (the one joined
\* row of a category without links has a NULL screenshot_id and counts 0).
ScreenshotCount(cat) ==
    LET rows == { l \in DOMAIN screenshotCategories : l.categoryId = cat }
    IN  BagCardinality([ l \in rows |-> screenshotCategories[l] ])

RECURSIVE GroupById(_)
\* groupBy(categories.id): one row per category.  The select has no ORDER
\* BY; the groups are listed here by id, and read as a set.
GroupById(cats) ==
    IF cats = {} THEN <<>>
    ELSE LET c == CHOOSE x \in cats : \A y \in cats : x.id <= y.id
         IN  <<[id |-> c.id, name |-> c.name,
                screenshotCount |-> ScreenshotCount(c.id)]>>
             \o GroupById(cats \ {c})

\* GET /categories: one select, then c.json({categories}).
CategoriesSelect(r, ok) ==
    /\ CanStart(r)
    /\ LET q == [IdleReq EXCEPT !.kind = "categories"]
       IN  IF ~ok THEN Set(r, Caught(q, "storage"))
           ELSE Set(r, Done([q EXCEPT !.rows = GroupById(categories)], "200"))
    /\ Count(ok)
    /\ UNCHANGED <<variant, R2, tables, counters>>

\* ------------------------------------------ POST /analyze (single-label)
\* formData (which throws on a body that is no form), the two 400 checks
\* and file.arrayBuffer().
AnalyzeOnlyStart(r, file, parsed) ==
    /\ CanStart(r)
    /\ variant = "single"
    /\ LET q == [IdleReq EXCEPT !.kind = "analyze"]
       IN  Set(r, IF ~parsed THEN Caught(q, "parse")
                  ELSE IF file # "image" THEN Done(q, "400")
                  ELSE [q EXCEPT !.pc = "analyze"])
    /\ UNCHANGED <<variant, R2, tables, counters, faults>>

\* An analyze-only handler that keeps the image.
AnalyzeOnlyStored(r, outcome) ==
    /\ req[r].kind = "analyze"
    /\ req[r].pc = "analyze"
    /\ R2' = R2 \cup {nextKey}
    /\ nextKey' = nextKey + 1
    /\ Set(r, Done(req[r], "200"))
    /\ UNCHANGED <<variant, tables, nextId, nextCategoryId, nextResultId, faults>>

\* const analysis = await analyzeScreenshot(arrayBuffer, c.env) and the 200
\* with the judgement's fields.
AnalyzeOnlyAnalyze(r, outcome) ==
    /\ req[r].kind = "analyze"
    /\ req[r].pc = "analyze"
    /\ LET analysis == analyzeScreenshot(outcome)
       IN  Set(r, Done([req[r] EXCEPT
                            !.analysis = analysis,
                            !.failed = ~outcome.ok,
                            !.log = Append(@, "classify"),
                            !.resp = [isImportant |-> analysis.isImportant,
                                      confidence |-> analysis.confidence,
                                      categories |-> <<analysis.folderCategory>>]],
                       "200"))
    /\ UNCHANGED <<variant, R2, tables, counters, faults>>

\* ------------------------------------------------------------ the system
Files == {"none", "text", "image"}

\* A request arrives: its handler runs to its first await.
UploadStart(r) == \E file \in Files, ok \in Oks : UploadPut(r, file, ok)

ToolStart(r) == \E valid \in BOOLEAN, ok \in Oks : ToolPut(r, valid, ok)

FetchStart(r) == \E id \in TargetIds, ok \in Oks : FetchSelect(r, id, ok)

GetAnalysisStart(r) == \E id \in TargetIds, ok \in Oks : GetAnalysisSelect(r, id, ok)

ReanalyzeStart(r) == \E id \in TargetIds, ok \in Oks : ReanalyzeSelect(r, id, ok)

DeleteStart(r) == \E id \in TargetIds, ok \in Oks : DeleteSelect(r, id, ok)

\* The arguments a caller may give.
DryRunArgs == {<<>>, <<TRUE>>, <<FALSE>>}

ThresholdArgs == {<<>>, <<5>>, <<9>>}

CategoryArgs == {"", "Dev", "Social"}

DateArgs == {NoDate, 2}

Limits == {1, 50}

Offsets == {0, 1}

CleanupStart(r) ==
    \E dryRun \in DryRunArgs, threshold \in ThresholdArgs, ok \in Oks :
        \E ids \in Orders(ClutterScreenshots(ConfidenceThreshold(threshold))) :
            CleanupSelect(r, dryRun, threshold, ok, ids)

ListStart(r) ==
    \E category \in CategoryArgs, importantOnly \in BOOLEAN,
       dateFrom \in DateArgs, dateTo \in DateArgs,
       limit \in Limits, offset \in Offsets, ok \in Oks :
        ListSelect(r, category, importantOnly, dateFrom, dateTo, limit, offset, ok)

SearchStart(r) ==
    \E category \in CategoryArgs, importantOnly \in BOOLEAN,
       limit \in Limits, ok \in Oks :
        SearchSelect(r, category, importantOnly, limit, ok)

CategoriesStart(r) == \E ok \in Oks : CategoriesSelect(r, ok)

AnalyzeOnlyBegin(r) ==
    \E file \in Files, parsed \in BOOLEAN : AnalyzeOnlyStart(r, file, parsed)

\* A request in flight resumes after an await.
CleanupStep(r) ==
    \/ \E ok \in Oks : CleanupBlob(r, ok)
    \/ \E ok \in Oks : CleanupRow(r, ok)

AnalyzeOnlyStep(r) == \E outcome \in Outcomes : AnalyzeOnlyAnalyze(r, outcome)

UploadStep(r) ==
    \/ \E ok \in Oks : UploadInsert(r, ok)
    \/ \E outcome \in Outcomes : UploadAnalyze(r, outcome)
    \/ \E ok \in Oks : UploadUpdate(r, ok)
    \/ \E ok \in Oks : UploadResult(r, ok)
    \/ \E ok \in Oks : UploadSelectCategory(r, ok)
    \/ \E ok \in Oks : UploadCreateCategory(r, ok)
    \/ \E ok \in Oks : UploadLink(r, ok)

ToolStep(r) ==
    \/ \E ok \in Oks : ToolInsert(r, ok)
    \/ \E outcome \in Outcomes : ToolAnalyze(r, outcome)
    \/ \E ok \in Oks : ToolUpdate(r, ok)

FetchStep(r) == \E ok \in Oks : FetchGet(r, ok)

GetAnalysisStep(r) == \E ok \in Oks : GetAnalysisRead(r, ok)

ReanalyzeStep(r) ==
    \/ \E ok \in Oks : ReanalyzeGet(r, ok)
    \/ \E outcome \in Outcomes : ReanalyzeAnalyze(r, outcome)
    \/ \E ok \in Oks : ReanalyzeUpdate(r, ok)
    \/ \E ok \in Oks : ReanalyzeResult(r, ok)
    \/ \E ok \in Oks : ReanalyzeUnlink(r, ok)
    \/ \E ok \in Oks : ReanalyzeSelectCategory(r, ok)
    \/ \E ok \in Oks : ReanalyzeCreateCategory(r, ok)
    \/ \E ok \in Oks : ReanalyzeLink(r, ok)

DeleteStep(r) ==
    \/ \E ok \in Oks : DeleteBlob(r, ok)
    \/ \E ok \in Oks : DeleteRow(r, ok)

Start(r) ==
    \/ UploadStart(r)
    \/ ToolStart(r)
    \/ FetchStart(r)
    \/ GetAnalysisStart(r)
    \/ ReanalyzeStart(r)
    \/ DeleteStart(r)

Step(r) ==
    \/ UploadStep(r)
    \/ ToolStep(r)
    \/ FetchStep(r)
    \/ GetAnalysisStep(r)
    \/ ReanalyzeStep(r)
    \/ DeleteStep(r)

\* The response leaves the worker and the request's locals are dropped.
Return(r) ==
    /\ req[r].pc = "done"
    /\ Set(r, GoneReq)
    /\ UNCHANGED <<variant, R2, tables, counters, faults>>

\* Requests interleave at every await; a handler's return is not an await,
\* so nothing runs between a handler's last statement and its response.
Next ==
    \E r \in Slots :
        \/ Return(r)
        \/ NoneDone /\ Start(r)
        \/ NoneDone /\ Step(r)

\* The handlers of one screenshot (upload, analyze_screenshot, fetch,
\* get-analysis, reanalyze, delete), any interleaving, storage never throwing.
Spec == Init /\ [][Next]_vars

\* One request at a time: each runs to its response before the next arrives;
\* storage calls may throw.  The responses stay on record, in arrival order.
NextSeq ==
    \E r \in Slots :
        \/ Quiet /\ Start(r)
        \/ Step(r)

SpecSeq == InitFaulty /\ [][NextSeq]_vars

\* The writers of the category and link tables: uploads and reanalyses, any
\* interleaving.
NextIngest ==
    \E r \in Slots :
        \/ Return(r)
        \/ NoneDone /\ (UploadStart(r) \/ ReanalyzeStart(r))
        \/ NoneDone /\ (UploadStep(r) \/ ReanalyzeStep(r))

SpecIngest == InitSeeded /\ [][NextIngest]_vars

\* Deletion against the requests that name a screenshot id, any interleaving.
NextDelete ==
    \E r \in Slots :
        \/ Return(r)
        \/ NoneDone /\ (DeleteStart(r) \/ ReanalyzeStart(r) \/ FetchStart(r)
                        \/ GetAnalysisStart(r))
        \/ NoneDone /\ (DeleteStep(r) \/ ReanalyzeStep(r) \/ FetchStep(r)
                        \/ GetAnalysisStep(r))

SpecDelete == InitSeeded /\ [][NextDelete]_vars

\* The catalog's readers and bulk deleter against uploads, one request at a
\* time, storage never throwing.
NextCatalog ==
    \E r \in Slots :
        \/ Return(r)
        \/ Quiet /\ NoneDone /\ (UploadStart(r) \/ CleanupStart(r) \/ ListStart(r)
                                  \/ SearchStart(r) \/ AnalyzeOnlyBegin(r))
        \/ NoneDone /\ (UploadStep(r) \/ CleanupStep(r) \/ AnalyzeOnlyStep(r))

SpecCatalog == InitSeeded /\ [][NextCatalog]_vars

\* The writers and deleters of the catalog, one request at a time; storage
\* calls may throw.
NextStore ==
    \E r \in Slots :
        \/ Return(r)
        \/ Quiet /\ NoneDone /\ (UploadStart(r) \/ ReanalyzeStart(r)
                                  \/ DeleteStart(r))
        \/ NoneDone /\ (UploadStep(r) \/ ReanalyzeStep(r) \/ DeleteStep(r))

SpecStore == InitFaulty /\ [][NextStore]_vars

\* The category listing against reanalyses and deletes, any interleaving;
\* the classifier may also name a category twice.
NextCount ==
    \E r \in Slots :
        \/ Return(r)
        \/ NoneDone /\ (ReanalyzeStart(r) \/ DeleteStart(r) \/ CategoriesStart(r))
        \/ NoneDone /\ (ReanalyzeStep(r) \/ DeleteStep(r))
        \/ NoneDone /\ ReanalyzeAnalyze(r, [ok |-> TRUE, object |-> Repeated])

SpecCount == InitSeeded /\ [][NextCount]_vars

\* cleanup_clutter against reanalyses, any interleaving; the classifier may
\* also find the screenshot important.
NextSweep ==
    \E r \in Slots :
        \/ Return(r)
        \/ NoneDone /\ (CleanupStart(r) \/ ReanalyzeStart(r))
        \/ NoneDone /\ (CleanupStep(r) \/ ReanalyzeStep(r))
        \/ NoneDone /\ ReanalyzeAnalyze(r, [ok |-> TRUE, object |-> Seed])

SpecSweep == InitClutter /\ [][NextSweep]_vars

\* No upload is between its first and its last await.
NoUpload ==
    \A q \in Slots : req[q].kind = "upload" => req[q].pc \in {"done", "gone"}

\* cleanup_clutter against an upload, any interleaving: the cleanups arrive
\* at any time, an upload when no other upload is in flight.
NextFresh ==
    \E r \in Slots :
        \/ Return(r)
        \/ NoneDone /\ CleanupStart(r)
        \/ NoneDone /\ NoUpload /\ UploadStart(r)
        \/ NoneDone /\ (CleanupStep(r) \/ UploadStep(r))

SpecFresh == InitClutter /\ [][NextFresh]_vars

\* generateR2Key on every file name, call after call.
NextKeys ==
    \E r \in Slots :
        \/ Return(r)
        \/ Quiet /\ NoneDone /\ \E filename \in FileNames : GenerateKey(r, filename)

SpecKeys == Init /\ [][NextKeys]_vars

\* Every handler that writes a Screenshot row or removes one, one request at
\* a time, storage never throwing.
NextRows ==
    \E r \in Slots :
        \/ Return(r)
        \/ Quiet /\ NoneDone /\ (UploadStart(r) \/ ToolStart(r) \/ ReanalyzeStart(r)
                                  \/ DeleteStart(r) \/ CleanupStart(r))
        \/ NoneDone /\ (UploadStep(r) \/ ToolStep(r) \/ ReanalyzeStep(r)
                        \/ DeleteStep(r) \/ CleanupStep(r))

SpecRows == InitSeeded /\ [][NextRows]_vars

\* ================================================================ claims
\* What the tables say about one screenshot.
LinkRowsOf(id) == { l \in DOMAIN screenshotCategories : l.screenshotId = id }

CategoryName(cat) == (CHOOSE c \in categories : c.id = cat).name

LinkNames(id) == { CategoryName(l.categoryId) : l \in LinkRowsOf(id) }

ResultsOf(id, type) ==
    { a \in analysisResults : a.screenshotId = id /\ a.analysisType = type }

Range(seq) == { seq[k] : k \in DOMAIN seq }

\* No reanalysis has written to the row: none is past its update, none has
\* left a result row.
NotReanalyzed(id) ==
    /\ \A q \in Slots :
           req[q].kind = "reanalyze" /\ req[q].id = id
               => req[q].pc \in {"get", "analyze", "update"}
    /\ ResultsOf(id, "gemini_vision_reanalysis") = {}

\* C1: an upload whose classifier call failed and whose storage calls all
\* succeeded responds 201 with the fallback judgement (not important,
\* confidence 0.5, category "uncategorized" in the multi-label variant and
\* "Temp" in the single-label one), and its row, unless a reanalysis has
\* overwritten it since, holds isImportant = false, confidenceScore = 0.5
\* and a non-null analyzedAt.
C1_FallbackUpload ==
    \A r \in Slots :
        req[r].kind = "upload" /\ req[r].pc = "done" /\ req[r].failed
        /\ req[r].err = "none"
        => /\ req[r].status = "201"
           /\ req[r].resp =
                  [isImportant |-> FALSE, confidence |-> 5,
                   categories |-> IF variant = "multi" THEN <<"uncategorized">>
                                  ELSE <<"Temp">>]
           /\ req[r].id \in DOMAIN screenshots
           /\ NotReanalyzed(req[r].id)
                  => /\ screenshots[req[r].id].isImportant = FALSE
                     /\ screenshots[req[r].id].confidenceScore = 5
                     /\ screenshots[req[r].id].analyzedAt # "null"

C1_Witness ==
    \E r \in Slots :
        /\ req[r].kind = "upload" /\ req[r].pc = "done" /\ req[r].failed
        /\ req[r].status = "201"
        /\ NotReanalyzed(req[r].id)
        /\ screenshots[req[r].id].confidenceScore = 5

\* C2: whenever no upload is in flight, every Screenshot row has a non-null
\* analysis timestamp and a non-null confidence score, whatever the outcome
\* of the upload that created it.
C2_RowsAnalyzed ==
    (\A q \in Slots : req[q].kind \in {"upload", "tool"} => req[q].pc = "done")
        => \A id \in DOMAIN screenshots :
               /\ screenshots[id].analyzedAt # "null"
               /\ screenshots[id].confidenceScore # NullScore

\* C3: in every reachable state every blob in the bucket has a Screenshot
\* row whose storage key is the blob's key.
C3_NoOrphanBlob ==
    \A k \in R2 : \E id \in DOMAIN screenshots : screenshots[id].r2Key = k

\* C4: an upload's steps happen in the order row insert, classifier call,
\* analysis update, Analysis Result insert, then per category name its
\* get-or-create and its link row; 201 is produced only after the link row
\* of the last category name.
Follows ==
    { <<"put", "insert">>, <<"insert", "classify">>, <<"classify", "update">>,
      <<"update", "result">>, <<"result", "resolve">>, <<"resolve", "link">>,
      <<"link", "resolve">> }

InOrder(log) ==
    /\ log # <<>> => log[1] = "put"
    /\ \A k \in 1..(Len(log) - 1) : <<log[k], log[k + 1]>> \in Follows

C4_WriteOrder ==
    \A r \in Slots :
        req[r].kind = "upload"
        => /\ InOrder(req[r].log)
           /\ req[r].status = "201"
                  => LET names == UploadCategoryNames(variant, req[r].analysis)
                     IN  /\ Cardinality({ k \in DOMAIN req[r].log :
                                          req[r].log[k] = "link" }) = Len(names)
                         /\ req[r].log[Len(req[r].log)] = "link"

C4_Witness ==
    \E r \in Slots :
        /\ req[r].kind = "upload" /\ req[r].status = "201"
        /\ Len(UploadCategoryNames(variant, req[r].analysis)) = 2
        /\ Len(req[r].log) = 9

\* C5: after N sequential reanalyses of a screenshot, storage succeeding,
\* exactly N Analysis Result rows tagged as reanalysis exist for it and its
\* link rows name exactly the categories of the Nth judgement.
Reanalyses(id) ==
    { r \in Slots : /\ req[r].kind = "reanalyze" /\ req[r].id = id
                    /\ req[r].pc = "done" /\ req[r].status # "404" }

Last(rs) == CHOOSE r \in rs : \A q \in rs : q <= r

C5_SequentialReanalyses ==
    Quiet /\ faults = MaxFaults
    => \A id \in DOMAIN screenshots :
           Reanalyses(id) # {}
           => /\ Cardinality(ResultsOf(id, "gemini_vision_reanalysis"))
                     = Cardinality(Reanalyses(id))
              /\ LinkNames(id) =
                     Range(UploadCategoryNames(variant,
                                               req[Last(Reanalyses(id))].analysis))
              /\ \A l \in LinkRowsOf(id) : screenshotCategories[l] = 1

\* C6: once every reanalysis of a screenshot has completed, in whatever
\* interleaving, its link rows name the categories of one judgement only
\* (never a union of two) and no category is linked twice.
NameSets ==
    { Range(j.categories) : j \in Judgements \cup {Fallback, Seed} }

C6_OneJudgement ==
    (\A q \in Slots : req[q].kind = "reanalyze" => req[q].pc = "done")
    => \A id \in DOMAIN screenshots :
           /\ \E names \in NameSets : LinkNames(id) \subseteq names
           /\ \A l \in LinkRowsOf(id) : screenshotCategories[l] = 1

\* C7: in every reachable state, under any interleaving of uploads and
\* reanalyses, no two Category rows have the same name.
C7_UniqueNames ==
    \A c1 \in categories, c2 \in categories : c1.name = c2.name => c1 = c2

C7_Witness ==
    \E r \in Slots :
        /\ req[r].err = "unique"
        /\ Cardinality({ c \in categories :
                         c.name = Names(req[r])[req[r].i] }) = 1

\* C8: a request that finds no row for a category name and whose insert
\* meets the row another request created in between does not fail: no
\* upload or reanalysis ends on the uniqueness violation.
C8_RaceLoserSucceeds ==
    \A r \in Slots :
        req[r].kind \in {"upload", "reanalyze"} /\ req[r].pc = "done"
        => req[r].err # "unique"

\* C9: once a delete has responded with success the bucket holds no blob
\* under the screenshot's key and the catalog no Screenshot, Analysis Result
\* or link row with its id; the row never comes back, and every fetch,
\* get-analysis, reanalyze or delete that looks the id up afterwards
\* responds 404.
Deleted(id) == id \in 1..(nextId - 1) /\ id \notin DOMAIN screenshots

ChildRows(id) ==
    { a \in analysisResults : a.screenshotId = id } \cup LinkRowsOf(id)

C9_DeletedNow ==
    \A r \in Slots :
        req[r].kind = "delete" /\ req[r].status = "200"
        => /\ req[r].key \notin R2
           /\ Deleted(req[r].id)
           /\ ChildRows(req[r].id) = {}

C9_DeletedLater ==
    /\ \A id \in 1..(nextId - 1) : Deleted(id) => Deleted(id)'
    /\ \A r \in Slots :
           /\ req[r].pc = "idle" /\ req'[r].pc # "idle"
           /\ req'[r].kind \in {"fetch", "analysis", "reanalyze", "delete"}
           /\ Deleted(req'[r].id)
           => req'[r].status = "404"

C9_DeleteIsFinal == [](C9_DeletedNow) /\ [][C9_DeletedLater]_vars

C9_Witness ==
    \E r \in Slots :
        /\ req[r].kind \in {"fetch", "analysis", "reanalyze", "delete"}
        /\ req[r].status = "404"
        /\ Deleted(req[r].id)
        /\ \E q \in Slots : q < r /\ req[q].pc = "gone"

\* C10: a screenshot deleted while a reanalysis of it is between its lookup
\* and its writes stays deleted: in every later state there is no
\* Screenshot row, no Analysis Result row and no link row with its id.
C10_NoResurrection ==
    /\ \A id \in 1..(nextId - 1) : Deleted(id) => ChildRows(id) = {}
    /\ \A r \in Slots :
           req[r].kind = "reanalyze" /\ req[r].err = "foreign key"
           => Deleted(req[r].id)

C10_Witness ==
    \E r \in Slots :
        /\ req[r].kind = "reanalyze" /\ req[r].key # NoId
        /\ req[r].pc = "done" /\ req[r].err = "foreign key"
        /\ Deleted(req[r].id)
        /\ ChildRows(req[r].id) = {}

\* C11: a reanalysis whose write meets the row a delete has removed in the
\* meantime ends with 404, not with a success and not with 500.
C11_NotFoundOnWrite ==
    \A r \in Slots :
        /\ req[r].kind = "reanalyze" /\ req[r].pc = "done"
        /\ req[r].err = "foreign key" /\ Deleted(req[r].id)
        => req[r].status = "404"

\* The rows the claims about cleanup_clutter call candidates: not important
\* and confidence at or above the threshold asked for (0.8 when omitted).
Asked(threshold) == IF threshold = <<>> THEN DefaultThreshold ELSE threshold[1]

Candidates(threshold) ==
    { id \in DOMAIN screenshots :
        /\ ~screenshots[id].isImportant
        /\ screenshots[id].confidenceScore >= Asked(threshold) }

\* The cleanup in slot r has selected and not yet deleted anything.
JustSelected(r) ==
    /\ req[r].kind = "cleanup"
    /\ req[r].status # "isError"
    /\ \/ req[r].pc = "done" /\ req[r].count \in {0, Len(req[r].rows)}
                             /\ Range(req[r].rows) \subseteq DOMAIN screenshots
       \/ req[r].pc = "blob" /\ req[r].i = 1

\* C12: the screenshots cleanup_clutter selects are exactly the rows with
\* isImportant = false and confidenceScore >= t; a row at t is in, a row
\* below t is out, an important row is out.
C12_Selection ==
    \A r \in Slots :
        JustSelected(r) => Range(req[r].rows) = Candidates(req[r].args.threshold)

C12_Witness ==
    \E r \in Slots :
        /\ JustSelected(r)
        /\ \E id \in Range(req[r].rows) :
               screenshots[id].confidenceScore = Asked(req[r].args.threshold)
        /\ \E id \in DOMAIN screenshots \ Range(req[r].rows) :
               screenshots[id].isImportant

\* C13: cleanup_clutter with dryRun true or omitted changes neither the
\* bucket nor any table, and reports every candidate.
C13_DryRunStep ==
    \A r \in Slots :
        /\ req[r].pc = "idle" /\ req'[r].kind = "cleanup"
        /\ req'[r].args.dryRun # <<FALSE>>
        => /\ UNCHANGED <<R2, tables>>
           /\ req'[r].pc = "done"
           /\ req'[r].status = "ok"
                  => /\ Range(req'[r].rows) = Candidates(req'[r].args.threshold)
                     /\ req'[r].count = Cardinality(Candidates(req'[r].args.threshold))

C13_DryRunFrame == [][C13_DryRunStep]_vars

C13_Witness ==
    \E r \in Slots :
        /\ req[r].kind = "cleanup" /\ req[r].pc = "done"
        /\ req[r].args.dryRun = <<>>
        /\ req[r].count = 1
        /\ req[r].rows[1] \in DOMAIN screenshots
        /\ req[r].keys[1] \in R2

\* C14: after cleanup_clutter with dryRun = false succeeds, no other request
\* running, every candidate has no blob, no row, no Analysis Result row and
\* no link row, the reported count is the number of candidates, and every
\* other screenshot, its blob and its child rows are as they were.
LinksOf(id) ==
    [ l \in LinkRowsOf(id) |-> screenshotCategories[l] ]

C14_Deleted ==
    \A r \in Slots :
        /\ req[r].kind = "cleanup" /\ req[r].pc = "done"
        /\ req[r].status = "ok" /\ req[r].args.dryRun = <<FALSE>>
        => /\ \A k \in DOMAIN req[r].rows :
                  /\ req[r].rows[k] \notin DOMAIN screenshots
                  /\ req[r].keys[k] \notin R2
                  /\ ChildRows(req[r].rows[k]) = {}
           /\ req[r].count = Len(req[r].rows)

C14_OthersKept ==
    \A r \in Slots :
        req[r].kind = "cleanup" /\ req[r].pc \in {"blob", "row"}
        => \A id \in DOMAIN screenshots \ Range(req[r].rows) :
               /\ id \in DOMAIN screenshots'
               /\ screenshots'[id] = screenshots[id]
               /\ (screenshots[id].r2Key \in R2) = (screenshots[id].r2Key \in R2')
               /\ LinksOf(id)' = LinksOf(id)
               /\ { a \in analysisResults' : a.screenshotId = id }
                      = { a \in analysisResults : a.screenshotId = id }

C14_CleanupExecutes == [](C14_Deleted) /\ [][C14_OthersKept]_vars

C14_Witness ==
    \E r \in Slots :
        /\ req[r].kind = "cleanup" /\ req[r].pc = "done"
        /\ req[r].status = "ok" /\ req[r].args.dryRun = <<FALSE>>
        /\ req[r].count = 1
        /\ \E id \in DOMAIN screenshots :
               screenshots[id].r2Key \in R2 /\ ChildRows(id) # {}

\* C15: every screenshot GET /screenshots or search_screenshots returns
\* satisfies all the filters given, together: important_only, category (a
\* link row to the category of that name), date_from and date_to.
C15_FiltersConjoined ==
    \A r \in Slots :
        req[r].kind \in {"list", "search"} /\ req[r].err = "none"
        => \A k \in DOMAIN req[r].rows :
               LET id == req[r].rows[k]
                   a == req[r].args
               IN  /\ id \in DOMAIN screenshots
                   /\ a.importantOnly => screenshots[id].isImportant
                   /\ a.category # "" => a.category \in LinkNames(id)
                   /\ a.dateFrom # NoDate => UploadedAt(id) >= a.dateFrom
                   /\ a.dateTo # NoDate => UploadedAt(id) <= a.dateTo

C15_Witness ==
    \E r \in Slots :
        /\ req[r].kind = "list" /\ req[r].pc = "done"
        /\ req[r].args.importantOnly /\ req[r].args.category = "Dev"
        /\ req[r].rows = <<1>>
        /\ \E id \in DOMAIN screenshots :
               "Dev" \in LinkNames(id) /\ ~screenshots[id].isImportant

\* C16: an upload with no file, or with a file that is no image, responds
\* 400 and puts no blob, inserts no row and does not call the classifier.
C16_RejectedStep ==
    \A r \in Slots, file \in Files \ {"image"} :
        UploadPut(r, file, TRUE)
        => /\ req'[r].status = "400"
           /\ req'[r].log = <<>>
           /\ UNCHANGED <<R2, tables, counters>>

C16_Rejected ==
    \A r \in Slots :
        req[r].kind = "upload" /\ req[r].status = "400"
        => req[r].pc = "done" /\ req[r].key = NoId /\ req[r].id = NoId
           /\ req[r].log = <<>>

C16_ValidationError == [](C16_Rejected) /\ [][C16_RejectedStep]_vars

C16_Witness ==
    \E r \in Slots :
        /\ req[r].kind = "upload" /\ req[r].status = "400"
        /\ R2 # {} /\ DOMAIN screenshots # {}

\* C17: POST /analyze never changes durable state: whatever the input and
\* the outcome (200, 400, 500, classifier success or failure) the bucket
\* and the four tables are after each of its steps what they were before.
C17_AnalyzeStep ==
    \A r \in Slots :
        req'[r].kind = "analyze" /\ req'[r].pc # req[r].pc
        => UNCHANGED <<R2, tables, counters>>

C17_AnalyzeOnlyFrame == [][C17_AnalyzeStep]_vars

C17_Witness ==
    \E r \in Slots :
        /\ req[r].kind = "analyze" /\ req[r].status = "200"
        /\ req[r].failed
        /\ R2 # {} /\ DOMAIN screenshots # {}

\* C18: no two Screenshot rows share an id or a storage key, the blob of
\* every upload goes under a key no earlier upload was given (the key of a
\* deleted screenshot included), and every new row takes an id no earlier
\* row had.
C18_DistinctKeys ==
    \A id1 \in DOMAIN screenshots, id2 \in DOMAIN screenshots :
        id1 # id2 => screenshots[id1].r2Key # screenshots[id2].r2Key

C18_FreshStep ==
    /\ \A r \in Slots :
           req[r].pc = "idle" /\ req'[r].kind = "upload" /\ req'[r].key # NoId
           => /\ req'[r].key \notin R2
              /\ req'[r].key \notin 1..(nextKey - 1)
              /\ UniqueKeyOk(req'[r].key)
    /\ \A id \in DOMAIN screenshots' \ DOMAIN screenshots :
           id \notin 1..(nextId - 1)

C18_NeverReused == [](C18_DistinctKeys) /\ [][C18_FreshStep]_vars

C18_Witness ==
    \E r \in Slots :
        /\ req[r].kind = "upload" /\ req[r].status = "201"
        /\ req[r].key \in R2
        /\ \E k \in 1..(nextKey - 1) : k # req[r].key /\ k \notin R2

\* C19: the Analysis Result table is append-only while the screenshot
\* exists: no step removes or changes a row whose screenshot is still
\* there, the step of an upload or a reanalysis that inserts its row adds
\* exactly one, and each successful upload or reanalysis has taken that
\* step once.
Results(id) == { a \in analysisResults : a.screenshotId = id }

C19_AppendStep ==
    /\ \A a \in analysisResults :
           a.screenshotId \in DOMAIN screenshots' => a \in analysisResults'
    /\ \A r \in Slots :
           /\ req'[r].kind \in {"upload", "reanalyze"}
           /\ Len(req'[r].log) = Len(req[r].log) + 1
           /\ req'[r].log[Len(req'[r].log)] = "result"
           => Cardinality({ a \in analysisResults' : a.screenshotId = req'[r].id })
                  = Cardinality(Results(req'[r].id)) + 1

C19_OneEach ==
    \A r \in Slots :
        req[r].kind \in {"upload", "reanalyze"} /\ req[r].status \in {"200", "201"}
        => Cardinality({ k \in DOMAIN req[r].log : req[r].log[k] = "result" }) = 1

C19_AppendOnly == [](C19_OneEach) /\ [][C19_AppendStep]_vars

C19_Witness ==
    \E r \in Slots :
        /\ req[r].kind = "reanalyze" /\ req[r].status = "200"
        /\ Cardinality(Results(req[r].id)) = 2

\* C20: an upload that responds 201 has its row with the analysis fields
\* set, one Analysis Result row and a link row for every category of the
\* judgement; an upload one of whose storage calls throws responds 500.
C20_Complete ==
    \A r \in Slots :
        req[r].kind = "upload" /\ req[r].pc = "done" /\ req[r].status = "201"
        => /\ req[r].id \in DOMAIN screenshots
           /\ screenshots[req[r].id].analyzedAt # "null"
           /\ screenshots[req[r].id].confidenceScore = req[r].analysis.confidence
           /\ screenshots[req[r].id].isImportant = req[r].analysis.isImportant
           /\ Cardinality(Results(req[r].id)) = 1
           /\ Range(UploadCategoryNames(variant, req[r].analysis))
                  \subseteq LinkNames(req[r].id)

C20_FailStep ==
    \A r \in Slots :
        faults' < faults /\ req'[r].kind = "upload" /\ req'[r].pc # req[r].pc
        => req'[r].pc = "done" /\ req'[r].status = "500"

C20_NoPartialSuccess == [](C20_Complete) /\ [][C20_FailStep]_vars

C20_Witness ==
    \E r \in Slots :
        /\ req[r].kind = "upload" /\ req[r].status = "500"
        /\ req[r].err = "storage"
        /\ req[r].id \in DOMAIN screenshots
        /\ Results(req[r].id) # {}
        /\ LinkNames(req[r].id) = {}

\* The request in slot r is the latest to have arrived.
Latest(r) == \A q \in Slots : q > r => req[q].pc = "idle"

\* C21: a reanalysis of an existing screenshot whose blob is present, none
\* of its storage calls throwing, responds 200 with the new isImportant,
\* confidence and categories and leaves the screenshot a link row for each
\* category of the new judgement, in the multi-label and in the single-label
\* variant, for a judgement and for the fallback.
C21_ReanalyzeSucceeds ==
    \A r \in Slots :
        /\ req[r].kind = "reanalyze" /\ req[r].pc = "done" /\ Latest(r)
        /\ req[r].id \in DOMAIN screenshots /\ req[r].key \in R2
        /\ req[r].err # "storage"
        => /\ req[r].status = "200"
           /\ req[r].resp.isImportant = req[r].analysis.isImportant
           /\ req[r].resp.confidence = req[r].analysis.confidence
           /\ LinkNames(req[r].id)
                  = Range(UploadCategoryNames(variant, req[r].analysis))

\* What a successful POST /upload leaves for its screenshot: the blob, the
\* row with the analysis fields set, one Analysis Result row and a link row
\* to the category of each name of the judgement.
Ingested(q, names) ==
    /\ q.key \in R2
    /\ q.id \in DOMAIN screenshots
    /\ screenshots[q.id].r2Key = q.key
    /\ screenshots[q.id].analyzedAt # "null"
    /\ screenshots[q.id].isImportant = q.analysis.isImportant
    /\ screenshots[q.id].confidenceScore = q.analysis.confidence
    /\ Cardinality(Results(q.id)) = 1
    /\ LinkNames(q.id) = Range(names)
    /\ \A l \in LinkRowsOf(q.id) : screenshotCategories[l] = 1

\* C22: analyze_screenshot mirrors POST /upload: a call that reports
\* success leaves what an upload of the same image with the same judgement
\* leaves, namely the blob, the Screenshot row with its analysis fields set,
\* one Analysis Result row, the Category rows and one link row per category.
C22_ToolMirrorsUpload ==
    \A r \in Slots :
        /\ req[r].kind \in {"tool", "upload"} /\ req[r].pc = "done" /\ Latest(r)
        /\ req[r].status \in {"ok", "201"}
        => Ingested(req[r], UploadCategoryNames(variant, req[r].analysis))

\* C23: fetch-blob, get-analysis, reanalyze and delete of an id that has no
\* row respond 404, fetch-blob and reanalyze of a row whose blob is missing
\* respond 404, and the step that produces a 404 changes neither the bucket
\* nor a table; a reanalysis that ends so has not called the classifier.
ById == {"fetch", "analysis", "reanalyze", "delete"}

C23_NotFoundStep ==
    \A r \in Slots :
        /\ /\ req[r].pc = "idle" /\ req'[r].kind \in ById
           /\ req'[r].id \notin DOMAIN screenshots
           => req'[r].status = "404"
        /\ /\ req[r].pc = "get" /\ req'[r].pc # "get"
           /\ req[r].key \notin R2
           => req'[r].status = "404"
        /\ req'[r].status = "404" /\ req[r].status # "404"
           => /\ UNCHANGED <<R2, tables, counters>>
              /\ req'[r].pc = "done"
              /\ req'[r].log = <<>>

C23_NotFoundHere ==
    \A r \in Slots :
        req[r].status = "404"
        => /\ req[r].kind \in ById
           /\ req[r].log = <<>> /\ req[r].analysis = NoAnalysis

C23_NotFound == [](C23_NotFoundHere) /\ [][C23_NotFoundStep]_vars

C23_Witness ==
    \E r \in Slots :
        /\ req[r].kind = "reanalyze" /\ req[r].status = "404"
        /\ req[r].id \in DOMAIN screenshots
        /\ screenshots[req[r].id].r2Key = req[r].key
        /\ req[r].key \notin R2
        /\ Results(req[r].id) # {} /\ LinkRowsOf(req[r].id) # {}

\* C24: a Screenshot row's filename, storage key, byte size, MIME type and
\* upload timestamp never change once it is created; only the analysis
\* update of an upload, of analyze_screenshot or of a reanalysis of that
\* screenshot changes the row, and no step changes a row otherwise than by
\* deleting it.
Fixed(row) ==
    <<row.filename, row.r2Key, row.fileSize, row.mimeType, row.uploadedAt>>

C24_RowStep ==
    \A id \in DOMAIN screenshots \cap DOMAIN screenshots' :
        /\ Fixed(screenshots'[id]) = Fixed(screenshots[id])
        /\ screenshots'[id] # screenshots[id]
           => \E r \in Slots :
                  /\ req[r].kind \in {"upload", "tool", "reanalyze"}
                  /\ req[r].pc = "update" /\ req[r].id = id
                  /\ "update" \in Range(req'[r].log)

C24_RowFrame == [][C24_RowStep]_vars

C24_Witness ==
    \E r \in Slots :
        /\ req[r].kind = "reanalyze" /\ "update" \in Range(req[r].log)
        /\ req[r].id \in DOMAIN screenshots
        /\ screenshots[req[r].id].isImportant # Seed.isImportant
        /\ screenshots[req[r].id].confidenceScore = req[r].analysis.confidence
        /\ Fixed(screenshots[req[r].id])
               = Fixed(NewScreenshot(req[r].id, req[r].key, FileOf("upload")))

\* C25: the storage key ends with the extension of the file name, and with
\* 'jpg' whenever the file name has none: it contains no '.' (as
\* 'screenshot') or it ends with '.'.
NoExtension(filename) ==
    \/ "." \notin Range(filename)
    \/ filename[Len(filename)] = "."

LinkCount(id, cat) ==
    LET rows == { l \in DOMAIN screenshotCategories :
                    l.screenshotId = id /\ l.categoryId = cat }
    IN  BagCardinality([ l \in rows |-> screenshotCategories[l] ])

C26_OneLinkPerPair ==
    \A id \in DOMAIN screenshots, cat \in CategoryIds : LinkCount(id, cat) <= 1

\* C27: list-categories returns every Category row exactly once, and the
\* screenshot count it reports for a category is the number of distinct
\* screenshots linked to it now (0 for a category without link rows).
LinkedTo(cat) ==
    { l.screenshotId : l \in { x \in DOMAIN screenshotCategories :
                                 x.categoryId = cat } }

C27_CategoryCounts ==
    \A r \in Slots :
        req[r].kind = "categories" /\ req[r].status = "200"
        => /\ Len(req[r].rows) = Cardinality(categories)
           /\ { [id |-> row.id, name |-> row.name] : row \in Range(req[r].rows) }
                  = categories
           /\ \A row \in Range(req[r].rows) :
                  row.screenshotCount = Cardinality(LinkedTo(row.id))

\* C28: cleanup_clutter in execute mode never deletes a screenshot whose
\* isImportant is true when its row is deleted, also when a reanalysis sets
\* the flag between the selection and the deletion.
C28_DeleteStep ==
    \A r \in Slots :
        /\ req[r].kind = "cleanup" /\ req[r].pc = "row"
        /\ req'[r].count = req[r].count + 1
        /\ req[r].rows[req[r].i] \in DOMAIN screenshots
        => ~screenshots[req[r].rows[req[r].i]].isImportant

C28_NoImportantDeleted == [][C28_DeleteStep]_vars

\* C29: a Screenshot row that is not classified yet (confidenceScore still
\* NULL, as between the insert and the analysis update of an upload in
\* flight) is no cleanup candidate for any threshold, and no step of a
\* cleanup removes such a row or its blob.
Unclassified(id) ==
    id \in DOMAIN screenshots /\ screenshots[id].confidenceScore = NullScore

C29_NotSelected ==
    \A r \in Slots :
        req[r].kind = "cleanup" => \A k \in DOMAIN req[r].rows :
                                       ~Unclassified(req[r].rows[k])

C29_KeptStep ==
    \A id \in DOMAIN screenshots :
        Unclassified(id)
        => /\ id \in DOMAIN screenshots'
           /\ screenshots[id].r2Key \in R2 => screenshots[id].r2Key \in R2'

C29_UnclassifiedKept == [](C29_NotSelected) /\ [][C29_KeptStep]_vars

C29_Witness ==
    \E r \in Slots, q \in Slots :
        /\ req[r].kind = "cleanup" /\ req[r].args.dryRun = <<FALSE>>
        /\ req[r].status = "ok" /\ req[r].count = 1
        /\ req[q].kind = "upload" /\ req[q].pc \in {"analyze", "update"}
        /\ Unclassified(req[q].id)
        /\ req[q].key \in R2

\* C30: whenever no delete and no cleanup is in flight, every Screenshot
\* row has its blob in the bucket, also after a delete or a cleanup that
\* failed once it had removed the blob.
C30_RowsHaveBlobs ==
    (\A q \in Slots :
         req[q].kind \in {"delete", "cleanup"} => req[q].pc = "done")
    => \A id \in DOMAIN screenshots : screenshots[id].r2Key \in R2

====
